---- MODULE Spec2Model ----
(***************************************************************************)
(* Model of the numerical core of PETSc-for-PDEs:                          *)
(*   c/ch11/ice.c  time-dependent ice sheet, periodic grid                 *)
(*                 (SetFromOptionsAppCtx, getflux, FormIFunctionLocal)     *)
(*   c/ch12/dnl.c  doubly-nonlinear obstacle problem, Dirichlet boundary   *)
(*                 (SIAflux, FormFunctionLocal)                            *)
(* C doubles are modelled as exact rationals <<num, den>> in lowest terms  *)
(* with den > 0: rounding is not modelled.                                 *)
(***************************************************************************)
EXTENDS Integers, Sequences, FiniteSets, TLC

VARIABLES
    kin,    \* arguments of the pure kernel under evaluation
    kout,   \* what the kernel returned ("none" before the call)
    opts,   \* ice.c: the command-line options of the run
    pc,     \* ice.c: position of main
    ctx,    \* ice.c: main's AppCtx user
    cmbm,   \* ice.c: main's CMBModel cmb
    ierr,   \* ice.c: the error code main holds / exits with
    prog,   \* residual evaluation: the program, "dnl" or "ice"
    nproc,  \* the number of processes sharing the grid
    uctx,   \* the AppCtx user handed to the residual routine
    aHin,   \* the iterate of the last evaluation (dnl: aHin, ice: aH)
    aHout,  \* the array of the iterate as the last evaluation left it
    aHdot,  \* ice: the time derivative handed to the last evaluation
    held,   \* per process, the local vectors taken from the DM and not given back
    ab,     \* the bed elevations read by the last evaluation
    FF,     \* the residual array
    ret,    \* what the last evaluation returned, on each process
    ncalls  \* the number of evaluations made

kerVars == <<kin, kout>>
cfgVars == <<opts, pc, ctx, cmbm, ierr>>
resVars == <<prog, nproc, uctx, aHin, aHout, aHdot, held, ab, FF, ret, ncalls>>
vars == <<kin, kout, opts, pc, ctx, cmbm, ierr,
          prog, nproc, uctx, aHin, aHout, aHdot, held, ab, FF, ret, ncalls>>

\* the kernels are not under evaluation
KerIdle == kin = "none" /\ kout = [op |-> "none"]
\* ice.c's main is not running
CfgIdle == opts = "none" /\ pc = "none" /\ ctx = "none" /\ cmbm = "none" /\ ierr = 0
\* no residual is being evaluated
ResIdle ==
    /\ prog = "none" /\ nproc = 0 /\ uctx = "none" /\ aHin = "none"
    /\ aHout = "none" /\ aHdot = "none" /\ held = "none" /\ ab = "none"
    /\ FF = "none" /\ ret = "none" /\ ncalls = 0

(***************************************************************************)
(* Exact rational arithmetic standing for double arithmetic.               *)
(***************************************************************************)
RECURSIVE GCD(_, _)
GCD(a, b) == IF b = 0 THEN a ELSE GCD(b, a % b)

IAbs(a) == IF a < 0 THEN -a ELSE a

Rat(n, d) ==
    LET g == GCD(IAbs(n), IAbs(d))
        s == IF d < 0 THEN -1 ELSE 1
    IN  <<s * (n \div g), s * (d \div g)>>

I(n) == <<n, 1>>
Zero == <<0, 1>>
One == <<1, 1>>

\* sum over the least common denominator, product after cross-cancelling: the
\* intermediate integers stay small
RAdd(a, b) ==
    IF a[1] = 0 THEN b
    ELSE IF b[1] = 0 THEN a
    ELSE LET g == GCD(a[2], b[2])
         IN  Rat(a[1] * (b[2] \div g) + b[1] * (a[2] \div g), (a[2] \div g) * b[2])
RNeg(a) == <<-a[1], a[2]>>
RSub(a, b) == RAdd(a, RNeg(b))
RMul(a, b) ==
    IF a[1] = 0 \/ b[1] = 0 THEN Zero
    ELSE LET g1 == GCD(IAbs(a[1]), b[2])
             g2 == GCD(IAbs(b[1]), a[2])
         IN  <<(a[1] \div g1) * (b[1] \div g2), (a[2] \div g2) * (b[2] \div g1)>>
RDiv(a, b) == RMul(a, IF b[1] < 0 THEN <<-b[2], -b[1]>> ELSE <<b[2], b[1]>>)
RLt(a, b) == a[1] * b[2] < b[1] * a[2]
RLe(a, b) == a[1] * b[2] <= b[1] * a[2]
RPos(a) == a[1] > 0
PetscAbsReal(a) == <<IAbs(a[1]), a[2]>>

RAdd4(a, b, c, d) == RAdd(RAdd(RAdd(a, b), c), d)
RMul3(a, b, c) == RMul(RMul(a, b), c)

\* pow(base, e) for a whole exponent e >= 0 (the exponents (n-1)/2 and n+2
\* of the modelled runs are whole numbers)
RECURSIVE IPow(_, _)
IPow(b, k) == IF k = 0 THEN One ELSE RMul(b, IPow(b, k - 1))

PetscPowReal(b, e) == IPow(b, e[1] \div e[2])

\* C evaluates the initializers of its locals in the order they are
\* declared, then the expression that uses them: the value of the last of
\* the expressions t, each evaluated once, in order
InOrder(t) == t[Len(t)]

(***************************************************************************)
(* Q1 interpolation kernel.                                                *)
(***************************************************************************)
\* mutant: the signs of the third and fourth corner exchanged
gx_swapped == <<I(-1), I(1), I(-1), I(1)>>

\* gradients of weights for Q^1 interpolant
gx == <<I(-1), I(1), I(1), I(-1)>>
gy == <<I(-1), I(-1), I(1), I(1)>>

\* weights for Q^1 interpolant
xweights(xi) == <<RSub(One, xi), xi, xi, RSub(One, xi)>>
\* mutant: the eta weights of the lower and the upper edge exchanged
yweights_flipped(eta) == <<eta, eta, RSub(One, eta), RSub(One, eta)>>

yweights(eta) == <<RSub(One, eta), RSub(One, eta), eta, eta>>

\* dnl.c: f is the sequence of the four corner values
fieldatpt(xi, eta, f) ==
    LET x == xweights(xi)
        y == yweights(eta)
    IN  RAdd4(RMul3(x[1], y[1], f[1]), RMul3(x[2], y[2], f[2]),
              RMul3(x[3], y[3], f[3]), RMul3(x[4], y[4], f[4]))

gradfatpt(xi, eta, dx, dy, f) ==
    LET x == xweights(xi)
        y == yweights(eta)
        sx == RAdd4(RMul3(gx[1], y[1], f[1]), RMul3(gx[2], y[2], f[2]),
                    RMul3(gx[3], y[3], f[3]), RMul3(gx[4], y[4], f[4]))
        sy == RAdd4(RMul3(x[1], gy[1], f[1]), RMul3(x[2], gy[2], f[2]),
                    RMul3(x[3], gy[3], f[3]), RMul3(x[4], gy[4], f[4]))
    IN  [x |-> RDiv(sx, dx), y |-> RDiv(sy, dy)]

\* the corners of element (u,v) of array f, in the order
\* (u,v), (u+1,v), (u+1,v+1), (u,v+1); f is indexed f[<<k, j>>]
Corners(u, v, f) == <<f[<<v, u>>], f[<<v, u + 1>>], f[<<v + 1, u + 1>>], f[<<v + 1, u>>]>>

fieldatptArray(u, v, xi, eta, f) == fieldatpt(xi, eta, Corners(u, v, f))

gradfatptArray(u, v, xi, eta, dx, dy, f) == gradfatpt(xi, eta, dx, dy, Corners(u, v, f))

\* ice.c: the same kernels, written out on the array
ice_fieldatpt(u, v, xi, eta, f) ==
    LET x == xweights(xi)
        y == yweights(eta)
    IN  RAdd4(RMul3(x[1], y[1], f[<<v, u>>]), RMul3(x[2], y[2], f[<<v, u + 1>>]),
              RMul3(x[3], y[3], f[<<v + 1, u + 1>>]), RMul3(x[4], y[4], f[<<v + 1, u>>]))

ice_gradfatpt(u, v, xi, eta, dx, dy, f) ==
    LET x == xweights(xi)
        y == yweights(eta)
        sx == RAdd4(RMul3(gx[1], y[1], f[<<v, u>>]), RMul3(gx[2], y[2], f[<<v, u + 1>>]),
                    RMul3(gx[3], y[3], f[<<v + 1, u + 1>>]), RMul3(gx[4], y[4], f[<<v + 1, u>>]))
        sy == RAdd4(RMul3(x[1], gy[1], f[<<v, u>>]), RMul3(x[2], gy[2], f[<<v, u + 1>>]),
                    RMul3(x[3], gy[3], f[<<v + 1, u + 1>>]), RMul3(x[4], gy[4], f[<<v + 1, u>>]))
    IN  [x |-> RDiv(sx, dx), y |-> RDiv(sy, dy)]

(***************************************************************************)
(* Flux model.  user is the AppCtx: a record with the fields n_ice, Gamma, *)
(* delta, eps, D0, lambda, ...                                             *)
(***************************************************************************)
\* mutant: the regularization delta^2 left out
Slopesqr_unregularized(gH, gb, delta) ==
    LET sx == RAdd(gH.x, gb.x)
        sy == RAdd(gH.y, gb.y)
    IN  RAdd(RMul(sx, sx), RMul(sy, sy))

Slopesqr(gH, gb, delta) ==
    LET sx == RAdd(gH.x, gb.x)
        sy == RAdd(gH.y, gb.y)
    IN  RAdd(RAdd(RMul(sx, sx), RMul(sy, sy)), RMul(delta, delta))

\* ice.c
getdelta(gH, gb, user) ==
    LET n == user.n_ice
    IN  IF RLt(One, n)
        THEN RMul(user.Gamma,
                  PetscPowReal(Slopesqr(gH, gb, user.delta), RDiv(RSub(n, One), I(2))))
        ELSE user.Gamma

getW(delta, gb) == [x |-> RNeg(RMul(delta, gb.x)), y |-> RNeg(RMul(delta, gb.y))]

ice_DCS(delta, H, n, eps, D0) ==
    RAdd(RMul3(RSub(One, eps), delta, PetscPowReal(PetscAbsReal(H), RAdd(n, I(2)))),
         RMul(eps, D0))

getflux(gH, gb, H, Hup, xdir, user) ==
    LET n == user.n_ice
        delta == getdelta(gH, gb, user)
        myD == ice_DCS(delta, H, n, user.eps, user.D0)
        myW == getW(delta, gb)
    IN  InOrder(<<delta, myD, myW,
                  IF xdir
                  THEN RAdd(RNeg(RMul(myD, gH.x)),
                            RMul(myW.x, PetscPowReal(PetscAbsReal(Hup), RAdd(n, I(2)))))
                  ELSE RAdd(RNeg(RMul(myD, gH.y)),
                            RMul(myW.y, PetscPowReal(PetscAbsReal(Hup), RAdd(n, I(2)))))>>)

\* dnl.c
sigma(gH, gb, user) ==
    RMul(user.Gamma,
         PetscPowReal(Slopesqr(gH, gb, user.delta), RDiv(RSub(user.n_ice, One), I(2))))

W(sig, gb) == [x |-> RNeg(RMul(sig, gb.x)), y |-> RNeg(RMul(sig, gb.y))]

\* mutant: the continuation term eps * D0 left out
DCS_nocontinuation(sig, H, user) ==
    RMul3(RSub(One, user.eps), sig,
          PetscPowReal(PetscAbsReal(H), RAdd(user.n_ice, I(2))))

DCS(sig, H, user) ==
    RAdd(RMul3(RSub(One, user.eps), sig,
               PetscPowReal(PetscAbsReal(H), RAdd(user.n_ice, I(2)))),
         RMul(user.eps, user.D0))

\* called with D and q both non-NULL
SIAflux(gH, gb, H, Hup, xdir, user) ==
    LET mysig == sigma(gH, gb, user)
        myD == DCS(mysig, H, user)
        myW == W(mysig, gb)
    IN  InOrder(<<mysig, myD, myW,
          [D |-> myD,
           q |-> IF xdir
                 THEN RAdd(RNeg(RMul(myD, gH.x)),
                           RMul(myW.x, PetscPowReal(PetscAbsReal(Hup), RAdd(user.n_ice, I(2)))))
                 ELSE RAdd(RNeg(RMul(myD, gH.y)),
                           RMul(myW.y, PetscPowReal(PetscAbsReal(Hup), RAdd(user.n_ice, I(2)))))]>>)

(***************************************************************************)
(* Quadrature tables (the same in ice.c and dnl.c); TLA+ sequences are     *)
(* 1-based, so the C index s is s+1 and the C index c is c+1 here.         *)
(***************************************************************************)
je == <<0, 0, -1, -1, -1, -1, 0, 0>>
ke == <<0, 0, 0, 0, -1, -1, -1, -1>>
ce == <<0, 3, 1, 0, 2, 1, 3, 2>>

\* direction of flux at 4 points in each element
xdire == <<TRUE, FALSE, TRUE, FALSE>>

\* local (element-wise) coords of quadrature points
locx == <<Rat(1, 2), Rat(3, 4), Rat(1, 2), Rat(1, 4)>>
locy == <<Rat(1, 4), Rat(1, 2), Rat(3, 4), Rat(1, 2)>>

\* mutant: all eight weights are positive
coeff_unsigned(dx, dy) ==
    LET hx == RDiv(dx, I(2))
        hy == RDiv(dy, I(2))
    IN  <<hy, hx, hx, hy, hy, hx, hx, hy>>

coeff(dx, dy) ==
    LET hx == RDiv(dx, I(2))
        hy == RDiv(dy, I(2))
    IN  <<hy, hx, hx, RNeg(hy), RNeg(hy), RNeg(hx), RNeg(hx), hy>>

(***************************************************************************)
(* Upwind point selection, as written inline in both residual routines.    *)
(***************************************************************************)
upwind(lambda) == RLt(Zero, lambda)
\* mutant: the factor 0.5 left out
upmin_unhalved(lambda) == RSub(One, lambda)

upmin(lambda) == RMul(RSub(One, lambda), Rat(1, 2))
upmax(lambda) == RMul(RAdd(One, lambda), Rat(1, 2))

\* the local point <<lxup, lyup>> of element quadrature point c (0..3) at
\* which Hup is sampled; without upwinding Hup = H, sampled at (locx, locy)
HupPoint(c, gb, lambda) ==
    IF upwind(lambda)
    THEN IF xdire[c + 1]
         THEN <<IF RLe(gb.x, Zero) THEN upmin(lambda) ELSE upmax(lambda), locy[c + 1]>>
         ELSE <<locx[c + 1], IF RLe(gb.y, Zero) THEN upmin(lambda) ELSE upmax(lambda)>>
    ELSE <<locx[c + 1], locy[c + 1]>>

(***************************************************************************)
(* SpecQ1: the Q1 kernels applied to bounded inputs.                       *)
(***************************************************************************)
\* corner values range over -1 .. MaxVal
MaxVal == 1
\* local coordinates range over the multiples of 1/LocDen in [0,1]
LocDen == 4
\* cell spacings range over p/2, p in 1 .. MaxSpacing
MaxSpacing == 2

CornerVals == {I(v) : v \in -1 .. MaxVal}
LocCoords == {Rat(i, LocDen) : i \in 0 .. LocDen}
Spacings == {Rat(p, 2) : p \in 1 .. MaxSpacing}

\* the 2 x 2 node array holding the corners f of one element at (0,0)
AsArray(f) == [p \in {0, 1} \X {0, 1} |->
                 IF p = <<0, 0>> THEN f[1] ELSE IF p = <<0, 1>> THEN f[2]
                 ELSE IF p = <<1, 1>> THEN f[3] ELSE f[4]]

Q1Init ==
    /\ kin \in [f : CornerVals \X CornerVals \X CornerVals \X CornerVals,
                xi : LocCoords, eta : LocCoords,
                dx : Spacings, dy : Spacings]
    /\ kout = [op |-> "none"]
    /\ CfgIdle /\ ResIdle

CallFieldatpt ==
    /\ kout.op = "none"
    /\ kout' = [op |-> "fieldatpt",
                dnl |-> fieldatpt(kin.xi, kin.eta, kin.f),
                ice |-> ice_fieldatpt(0, 0, kin.xi, kin.eta, AsArray(kin.f))]
    /\ UNCHANGED <<kin, cfgVars, resVars>>

CallGradfatpt ==
    /\ kout.op = "none"
    /\ kout' = [op |-> "gradfatpt",
                dnl |-> gradfatpt(kin.xi, kin.eta, kin.dx, kin.dy, kin.f),
                ice |-> ice_gradfatpt(0, 0, kin.xi, kin.eta, kin.dx, kin.dy, AsArray(kin.f))]
    /\ UNCHANGED <<kin, cfgVars, resVars>>

Q1Next == CallFieldatpt \/ CallGradfatpt

SpecQ1 == Q1Init /\ [][Q1Next]_vars

(***************************************************************************)
(* Claims on the Q1 kernel.                                                *)
(***************************************************************************)
Half == Rat(1, 2)
Mean4(f) == RDiv(RAdd4(f[1], f[2], f[3], f[4]), I(4))

\* what fieldatpt must return at the point (xi, eta), where the claim says it
Q1Expected(xi, eta, f) ==
    IF xi = Zero /\ eta = Zero THEN f[1]
    ELSE IF xi = One /\ eta = Zero THEN f[2]
    ELSE IF xi = One /\ eta = One THEN f[3]
    ELSE IF xi = Zero /\ eta = One THEN f[4]
    ELSE Mean4(f)

Q1ClaimPoint(xi, eta) ==
    \/ xi \in {Zero, One} /\ eta \in {Zero, One}
    \/ xi = Half /\ eta = Half

\* C4: fieldatpt (both programs) returns the corner value of (j,k), (j+1,k),
\* (j+1,k+1), (j,k+1) at the local points (0,0), (1,0), (1,1), (0,1) and the
\* arithmetic mean of the four corner values at the cell centre (1/2,1/2).
C4_InterpolationExact ==
    (kout.op = "fieldatpt" /\ Q1ClaimPoint(kin.xi, kin.eta)) =>
        /\ kout.dnl = Q1Expected(kin.xi, kin.eta, kin.f)
        /\ kout.ice = Q1Expected(kin.xi, kin.eta, kin.f)

\* a call at the cell centre on four corners that are not all equal, none of
\* them equal to the mean
C4_Witness ==
    /\ kout.op = "fieldatpt"
    /\ kin.xi = Half /\ kin.eta = Half
    /\ kin.f = <<I(-1), I(0), I(1), I(1)>>
    /\ kout.dnl = Rat(1, 4)

LinearInX(f) == f[1] = f[4] /\ f[2] = f[3]
LinearInY(f) == f[1] = f[2] /\ f[3] = f[4]

\* C5: on corner values of a field linear in x with slope m, that is
\* f(j+1,.) - f(j,.) = m dx on both edges, gradfatpt returns (m, 0) at every
\* local point and for every spacing; likewise (0, m) for a field linear in
\* y; a constant field has gradient (0, 0).
C5_GradientConsistent ==
    kout.op = "gradfatpt" =>
        /\ LinearInX(kin.f) =>
              /\ kout.dnl = [x |-> RDiv(RSub(kin.f[2], kin.f[1]), kin.dx), y |-> Zero]
              /\ kout.ice = kout.dnl
        /\ LinearInY(kin.f) =>
              /\ kout.dnl = [x |-> Zero, y |-> RDiv(RSub(kin.f[4], kin.f[1]), kin.dy)]
              /\ kout.ice = kout.dnl

\* a field linear in x of slope 4 = 2 / (1/2), sampled off the cell centre
\* with dx # dy
C5_Witness ==
    /\ kout.op = "gradfatpt"
    /\ kin.f = <<I(-1), I(1), I(1), I(-1)>>
    /\ kin.dx = Half /\ kin.dy = One
    /\ kin.xi = Rat(1, 4) /\ kin.eta = Rat(3, 4)
    /\ kout.dnl = [x |-> I(4), y |-> Zero]
    /\ kout.ice = [x |-> I(4), y |-> Zero]

(***************************************************************************)
(* SpecUp: upwind point selection applied to bounded inputs.               *)
(***************************************************************************)
\* lambda ranges over the multiples of 1/LamDen in [-1/LamDen, 1 + 1/LamDen]
LamDen == 4
\* gradient components range over -MaxSlope .. MaxSlope
MaxSlope == 1

Lambdas == {Rat(i, LamDen) : i \in -1 .. LamDen + 1}
Slopes == {I(v) : v \in -MaxSlope .. MaxSlope}
Grads == [x : Slopes, y : Slopes]

UpInit ==
    /\ kin \in [lambda : Lambdas, c : 0 .. 3, gb : Grads]
    /\ kout = [op |-> "none"]
    /\ CfgIdle /\ ResIdle

CallHupPoint ==
    /\ kout.op = "none"
    /\ kout' = [op |-> "HupPoint", pt |-> HupPoint(kin.c, kin.gb, kin.lambda)]
    /\ UNCHANGED <<kin, cfgVars, resVars>>

UpNext == CallHupPoint

SpecUp == UpInit /\ [][UpNext]_vars

\* the coordinate of the sampling point, and the bed-slope component, in the
\* flux direction of quadrature point c
DirCoord(c, pt) == IF c \in {0, 2} THEN pt[1] ELSE pt[2]
DirSlope(c, gb) == IF c \in {0, 2} THEN gb.x ELSE gb.y

\* C6: for lambda in [0,1], every quadrature point c and every bed slope, the
\* flux-direction coordinate at which Hup is sampled lies in
\* [(1-lambda)/2, (1+lambda)/2]; it is 1/2 for lambda = 0; for lambda = 1 it
\* is 0 when the bed-slope component is <= 0 and 1 otherwise.
C6_UpwindBound ==
    (kout.op = "HupPoint" /\ RLe(Zero, kin.lambda) /\ RLe(kin.lambda, One)) =>
        LET t == DirCoord(kin.c, kout.pt)
        IN  /\ RLe(RDiv(RSub(One, kin.lambda), I(2)), t)
            /\ RLe(t, RDiv(RAdd(One, kin.lambda), I(2)))
            /\ kin.lambda = Zero => t = Rat(1, 2)
            /\ kin.lambda = One =>
                  t = (IF DirSlope(kin.c, kin.gb)[1] <= 0 THEN Zero ELSE One)

\* full upwinding of a y-direction point on a rising bed: sampled at eta = 1
C6_Witness ==
    /\ kout.op = "HupPoint"
    /\ kin.lambda = One /\ kin.c = 1 /\ kin.gb = [x |-> I(-1), y |-> I(1)]
    /\ kout.pt = <<Rat(3, 4), One>>

(***************************************************************************)
(* SpecFlux: the flux models applied to bounded inputs.                    *)
(***************************************************************************)
Thicknesses == {I(v) : v \in -1 .. MaxVal}
\* parameters in their domain: n whole and odd, Gamma > 0, delta > 0,
\* eps in [0,1), D0 > 0
FluxUsers == [n_ice : {I(1), I(3)}, Gamma : {I(2)}, delta : {Rat(1, 2)},
              eps : {Zero, Rat(1, 4)}, D0 : {I(3)}]

FluxInit ==
    /\ kin \in [gH : Grads, gb : Grads, H : Thicknesses, Hup : {I(-1), I(MaxVal)},
                xdir : BOOLEAN, user : FluxUsers]
    /\ kout = [op |-> "none"]
    /\ CfgIdle /\ ResIdle

CallGetflux ==
    /\ kout.op = "none"
    /\ LET sig == getdelta(kin.gH, kin.gb, kin.user)
       IN  kout' = [op |-> "getflux",
                    sigma |-> sig,
                    D |-> ice_DCS(sig, kin.H, kin.user.n_ice, kin.user.eps, kin.user.D0),
                    q |-> getflux(kin.gH, kin.gb, kin.H, kin.Hup, kin.xdir, kin.user)]
    /\ UNCHANGED <<kin, cfgVars, resVars>>

CallSIAflux ==
    /\ kout.op = "none"
    /\ LET r == SIAflux(kin.gH, kin.gb, kin.H, kin.Hup, kin.xdir, kin.user)
       IN  kout' = [op |-> "SIAflux",
                    sigma |-> sigma(kin.gH, kin.gb, kin.user),
                    D |-> r.D,
                    q |-> r.q]
    /\ UNCHANGED <<kin, cfgVars, resVars>>

FluxNext == CallGetflux \/ CallSIAflux

SpecFlux == FluxInit /\ [][FluxNext]_vars

FluxCalled == kout.op \in {"getflux", "SIAflux"}
ZeroGrad == [x |-> Zero, y |-> Zero]

\* the case of C7: an x-flux on a flat bed with the thickness rising in +x
\* and an admissible thickness
C7_Case ==
    /\ FluxCalled /\ kin.xdir
    /\ RPos(kin.gH.x) /\ kin.gb = ZeroGrad /\ RLe(Zero, kin.H)

C7_Holds == kout.q = RNeg(RMul(kout.D, kin.gH.x)) /\ RPos(kout.D) /\ RLt(kout.q, Zero)

\* C7 as stated: for gH.x > 0, gb = (0,0), H >= 0, any Hup, delta > 0,
\* eps in [0,1), D0 > 0 the x-flux is -D*gH.x with D > 0, so negative.
C7_AsStated == C7_Case => C7_Holds

\* C7 as amended: the same, except at eps = 0 with H = 0, where D = 0.
C7_FluxSign == (C7_Case /\ (RPos(kin.user.eps) \/ RPos(kin.H))) => C7_Holds

\* the degenerate diffusivity alone (eps = 0) on ice of thickness 1
C7_Witness ==
    /\ C7_Case /\ kout.op = "SIAflux"
    /\ kin.user.eps = Zero /\ kin.H = One /\ kin.Hup = I(-1)
    /\ kin.user.n_ice = I(3) /\ kin.user.Gamma = I(2)
    /\ kin.gH = [x |-> One, y |-> Zero]
    /\ kout.q = Rat(-5, 2)

\* C8: slopesqr >= delta^2 > 0 for every pair of gradients, sigma is
\* Gamma * slopesqr^((n-1)/2) at every pair of gradients, the pair (0,0)
\* included; there sigma = Gamma * delta^(n-1) and the flux is a number.
C8_Regularized ==
    FluxCalled =>
        LET u == kin.user
            sx == RAdd(kin.gH.x, kin.gb.x)
            sy == RAdd(kin.gH.y, kin.gb.y)
            d2 == RMul(u.delta, u.delta)
            ssq == RAdd(RAdd(RMul(sx, sx), RMul(sy, sy)), d2)
            half == (u.n_ice[1] - 1) \div 2
        IN  /\ RPos(d2) /\ RLe(d2, ssq)
            /\ Slopesqr(kin.gH, kin.gb, u.delta) = ssq
            /\ kout.sigma = RMul(u.Gamma, IPow(ssq, half))
            /\ (kin.gH = ZeroGrad /\ kin.gb = ZeroGrad) =>
                  /\ kout.sigma = RMul(u.Gamma, IPow(u.delta, u.n_ice[1] - 1))
                  /\ RPos(kout.sigma)
                  /\ kout.q[2] > 0

\* zero slope with n = 3: sigma = 2 * (1/2)^2
C8_Witness ==
    /\ kout.op = "getflux"
    /\ kin.gH = ZeroGrad /\ kin.gb = ZeroGrad
    /\ kin.user.n_ice = I(3) /\ kin.user.Gamma = I(2) /\ kin.H = One
    /\ kout.sigma = Rat(1, 2)
    /\ kout.q = Zero

(***************************************************************************)
(* ice.c: configuration and main.  An option is Absent, Bad (present with  *)
(* a value PetscOptionsReal cannot read) or its value.  A field that was   *)
(* never assigned holds Uninit.                                            *)
(***************************************************************************)
Absent == <<>>
Bad == <<"bad">>
Uninit == <<"uninit">>
\* the error SETERRQ1 raises for n <= 1
ErrGlen == 11
\* PETSC_ERR_ARG_WRONG, raised inside PetscOptionsReal; petsc.h is not part
\* of the sources
ErrOption == 62

\* PetscOptionsReal(name, ..., current, &field): <<ierr, value of field>>
PetscOptionsReal(opt, current) ==
    IF opt = Absent THEN <<0, current>>
    ELSE IF opt = Bad THEN <<ErrOption, current>>
    ELSE <<0, opt>>

UninitAppCtx ==
    [L |-> Uninit, n_ice |-> Uninit, g |-> Uninit, rho_ice |-> Uninit,
     secpera |-> Uninit, A_ice |-> Uninit, initmagic |-> Uninit,
     delta |-> Uninit, lambda |-> Uninit, cmb |-> "uninit", D0 |-> Uninit,
     eps |-> Uninit, Gamma |-> Uninit]

\* the assignments of lines 136-148; the default softness 1.0e-16/secpera
\* and Gamma are kept as terms: their values are far below the model's
\* number range
DefaultAppCtx ==
    [L |-> I(900000), n_ice |-> I(3), g |-> Rat(981, 100), rho_ice |-> I(910),
     secpera |-> I(31556926), A_ice |-> <<"1.0e-16/secpera">>, initmagic |-> I(1000),
     delta |-> Rat(1, 10000), lambda |-> Rat(1, 4), cmb |-> "NULL", D0 |-> I(10),
     eps |-> Rat(1, 1000), Gamma |-> Uninit]

\* 2.0 * pow(rho_ice*g, n_ice) * A_ice / (n_ice + 2.0), as a term
GammaOf(u) == <<"2*pow(rho*g,n)*A/(n+2)", u.rho_ice, u.g, u.n_ice, u.A_ice>>

\* the options are read in this order; the first unreadable one returns
OptionOrder == <<"A", "delta", "initmagic", "lambda", "n">>
OptionField == [A |-> "A_ice", delta |-> "delta", initmagic |-> "initmagic",
                lambda |-> "lambda", n |-> "n_ice"]

RECURSIVE ReadOptions(_, _, _)
\* <<ierr, user>> after the PetscOptionsReal calls i .. 5
ReadOptions(i, o, u) ==
    IF i > Len(OptionOrder) THEN <<0, u>>
    ELSE LET name == OptionOrder[i]
             fld == OptionField[name]
             r == PetscOptionsReal(o[name], u[fld])
         IN  IF r[1] # 0 THEN <<r[1], u>>
             ELSE ReadOptions(i + 1, o, [u EXCEPT ![fld] = r[2]])

\* mutant: n < 1 where n <= 1 is meant
GlenRejected_strict(n) == RLt(n, One)

\* the Glen exponent is rejected
GlenRejected(n) == RLe(n, One)

\* <<ierr, user>> as SetFromOptionsAppCtx leaves them
SetFromOptionsAppCtx(o) ==
    LET r == ReadOptions(1, o, DefaultAppCtx)
        u == r[2]
    IN  IF r[1] # 0 THEN r
        ELSE IF GlenRejected(u.n_ice) THEN <<ErrGlen, u>>
        ELSE <<0, [u EXCEPT !.Gamma = GammaOf(u)]>>

\* <<ierr, cmb>> as SetFromOptionsCMBModel leaves them; the quotient
\* zgrad / secpera is kept as a term (it is far below the model's number range)
SetFromOptionsCMBModel(o, secpera) ==
    LET c0 == [ela |-> I(2000), zgrad |-> Rat(1, 1000)]
        r1 == PetscOptionsReal(o.ela, c0.ela)
        r2 == PetscOptionsReal(o.zgrad, c0.zgrad)
    IN  IF r1[1] # 0 THEN <<r1[1], c0>>
        ELSE IF r2[1] # 0 THEN <<r2[1], [c0 EXCEPT !.ela = r1[2]]>>
        ELSE <<0, [ela |-> r1[2], zgrad |-> <<"zgrad/secpera", r2[2], secpera>>]>>

\* the values an option takes in the modelled runs
GlenOptions == {Absent, Bad, Rat(1, 2), One, Rat(3, 2), I(3)}
Options == [A : {Absent, Bad, I(2)}, delta : {Absent, Rat(1, 2)},
            initmagic : {Absent, I(2)}, lambda : {Absent, One},
            n : GlenOptions, ela : {Absent, Bad, One},
            zgrad : {Absent, I(2)}]

CfgInit ==
    /\ opts \in Options
    /\ pc = "SetFromOptionsAppCtx"
    /\ ctx = UninitAppCtx
    /\ cmbm = [ela |-> Uninit, zgrad |-> Uninit]
    /\ ierr = 0
    /\ KerIdle /\ ResIdle

\* line 67: ierr = SetFromOptionsAppCtx(&user); CHKERRQ(ierr);
MainAppCtx ==
    /\ pc = "SetFromOptionsAppCtx"
    /\ LET r == SetFromOptionsAppCtx(opts)
       IN  /\ ierr' = r[1]
           /\ ctx' = r[2]
           /\ pc' = IF r[1] # 0 THEN "exit" ELSE "SetFromOptionsCMBModel"
    /\ UNCHANGED <<opts, cmbm, kerVars, resVars>>

\* lines 68-69: ierr = SetFromOptionsCMBModel(...); user.cmb = &cmb;
\* the return value is not checked
MainCMBModel ==
    /\ pc = "SetFromOptionsCMBModel"
    /\ LET r == SetFromOptionsCMBModel(opts, ctx.secpera)
       IN  /\ ierr' = r[1]
           /\ cmbm' = r[2]
    /\ ctx' = [ctx EXCEPT !.cmb = "&cmb"]
    /\ pc' = "DMDACreate2d"
    /\ UNCHANGED <<opts, kerVars, resVars>>

\* lines 72-101: the grid and the vectors are created (the calls of the
\* PETSc library are taken to succeed)
MainGrid ==
    /\ pc = "DMDACreate2d"
    /\ ierr' = 0
    /\ pc' = "TSSolve"
    /\ UNCHANGED <<opts, ctx, cmbm, kerVars, resVars>>

\* lines 104-123: the time stepper is set up and run
MainSolve ==
    /\ pc = "TSSolve"
    /\ ierr' = 0
    /\ pc' = "PetscFinalize"
    /\ UNCHANGED <<opts, ctx, cmbm, kerVars, resVars>>

\* lines 126-129
MainFinalize ==
    /\ pc = "PetscFinalize"
    /\ pc' = "exit"
    /\ UNCHANGED <<opts, ctx, cmbm, ierr, kerVars, resVars>>

CfgNext == MainAppCtx \/ MainCMBModel \/ MainGrid \/ MainSolve \/ MainFinalize

SpecCfg == CfgInit /\ [][CfgNext]_vars

\* SetFromOptionsAppCtx has returned, having read the option -n
GlenRead ==
    /\ pc # "SetFromOptionsAppCtx"
    /\ opts.A # Bad /\ opts.n \notin {Absent, Bad}
AppCtxFailed == pc = "exit" /\ ierr # 0 /\ cmbm.ela = Uninit

\* C1: SetFromOptionsAppCtx returns a fatal error for every supplied Glen
\* exponent n <= 1 and returns 0 for every n > 1; on the error Gamma has not
\* been computed.
C1_GlenRejected ==
    GlenRead =>
        IF opts.n[1] * 1 <= opts.n[2]
        THEN AppCtxFailed /\ ierr = ErrGlen /\ ctx.Gamma = Uninit
        ELSE ~AppCtxFailed /\ ctx.Gamma # Uninit /\ ctx.n_ice = opts.n

\* the run with -n 1.0 has stopped in SetFromOptionsAppCtx
C1_Witness ==
    /\ GlenRead /\ opts.n = One
    /\ pc = "exit" /\ ierr = ErrGlen /\ ctx.Gamma = Uninit /\ ctx.n_ice = One

(***************************************************************************)
(* Residual evaluation on a grid of MX x MY nodes shared by nproc          *)
(* processes.  Arrays are functions of the node <<k, j>>, as the C arrays  *)
(* are indexed [k][j].                                                     *)
(***************************************************************************)
\* the grid has MX x MY nodes
MX == 4
MY == 3
\* at most MaxCalls residual evaluations are followed
MaxCalls == 2

Nodes == (0 .. MY - 1) \X (0 .. MX - 1)
\* the nodes of the grid with one layer of ghost nodes around them
GhostNodes == (-1 .. MY) \X (-1 .. MX)

\* DMDALocalInfo of process r: the grid is split in x between the processes
LocalInfo(r, np) ==
    LET lo == (r * MX) \div np
        hi == ((r + 1) * MX) \div np
    IN  [mx |-> MX, my |-> MY, xs |-> lo, xm |-> hi - lo, ys |-> 0, ym |-> MY]

\* for (k = ys; k < ys+ym; k++) for (j = xs; j < xs+xm; j++)
Owned(info, k, j) ==
    /\ j >= info.xs /\ j < info.xs + info.xm
    /\ k >= info.ys /\ k < info.ys + info.ym

\* mutant: the equilibrium line altitude left out
M_CMBModel_noela(cmb, s) == RMul(cmb.zgrad, s)

\* the climatic mass balance at surface elevation s
M_CMBModel(cmb, s) == RMul(cmb.zgrad, RSub(s, cmb.ela))

\* FF[k][j] = - M * dx * dy plus what FF[k][j] held (old)
NodeStart_accumulating(old, M, dx, dy) == RAdd(old, RNeg(RMul3(M, dx, dy)))

\* FF[k][j] = - M * dx * dy, whatever FF[k][j] held (old)
NodeStart(old, M, dx, dy) == RNeg(RMul3(M, dx, dy))

RECURSIVE QuadSum(_, _, _, _, _, _)
\* for (s ..< 8) FF[k][j] += coeff[s] * aqquad(c = ce[s], k+ke[s], j+je[s]);
\* aq is a function of <<c, <<k, j>>>>
QuadSum(s, acc, k, j, aq, cf) ==
    IF s >= 8 THEN acc
    ELSE QuadSum(s + 1,
                 RAdd(acc, RMul(cf[s + 1],
                                aq[<<ce[s + 1], <<k + ke[s + 1], j + je[s + 1]>>>>])),
                 k, j, aq, cf)

\* PetscFunctionReturn(0)
NoError == [code |-> 0, val |-> Zero, j |-> 0, k |-> 0]
\* the process was killed inside the routine: nothing is returned
Killed == [code |-> -1, val |-> Zero, j |-> 0, k |-> 0]

(***************************************************************************)
(* dnl.c FormFunctionLocal.  The bed array ab is filled by FormBedLocal,   *)
(* which is not part of the sources: b stands for what it provides.  The   *)
(* verification branch (user->verif, DomeCMB) is not followed.  Line 525   *)
(* is a note left outside a comment; the statements around it are          *)
(* followed.  M_CMBModel comes from a header that is not part of the       *)
(* sources: the formula of ice.c is used.                                  *)
(***************************************************************************)
\* SETERRQ3(PETSC_COMM_WORLD,1,"... H[k][j] = %.3e < 0.0 at j,k = %d,%d",
\*          aHin[k][j],j,k): the code and the three arguments
Inadmissible(val, j, k) == [code |-> 1, val |-> val, j |-> j, k |-> k]

\* mutant: the iterate is checked whether or not the check was asked for
CheckFails_always(user, v) == RLt(v, Zero)

\* user->check_admissible && aHin[k][j] < 0.0
CheckFails(user, v) == user.check_admissible /\ RLt(v, Zero)

OnBoundary(info, k, j) == j = 0 \/ j = info.mx - 1 \/ k = 0 \/ k = info.my - 1

\* mutant: the staging loop runs over k inside j
StageOrder_columns(info) ==
    LET h == info.ym + 2
    IN  [i \in 1 .. (info.xm + 2) * h |->
           <<info.ys - 1 + ((i - 1) % h), info.xs - 1 + ((i - 1) \div h)>>]

\* the nodes <<k, j>> in the order the staging loop visits them
StageOrder(info) ==
    LET w == info.xm + 2
    IN  [i \in 1 .. (info.ym + 2) * w |->
           <<info.ys - 1 + ((i - 1) \div w), info.xs - 1 + ((i - 1) % w)>>]

\* mutant: the residual at a boundary node is taken from the staged copy
StageBody_staged(st, kj, Hin, info, user) ==
    LET k == kj[1]
        j == kj[2]
    IN  IF j < 0 \/ j > info.mx - 1 \/ k < 0 \/ k > info.my - 1 THEN st
        ELSE IF CheckFails(user, Hin[kj])
        THEN [st EXCEPT !.err = Inadmissible(Hin[kj], j, k)]
        ELSE IF OnBoundary(info, k, j)
        THEN [st EXCEPT !.FF = IF Owned(info, k, j)
                                THEN [@ EXCEPT ![kj] = Zero] ELSE @,
                        !.aH = (kj :> Zero) @@ @]
        ELSE [st EXCEPT !.aH = (kj :> Hin[kj]) @@ @]

\* mutant: the staged copy takes the value of the iterate at a boundary node
StageBody_copied(st, kj, Hin, info, user) ==
    LET k == kj[1]
        j == kj[2]
    IN  IF j < 0 \/ j > info.mx - 1 \/ k < 0 \/ k > info.my - 1 THEN st
        ELSE IF CheckFails(user, Hin[kj])
        THEN [st EXCEPT !.err = Inadmissible(Hin[kj], j, k)]
        ELSE IF OnBoundary(info, k, j)
        THEN [st EXCEPT !.FF = IF Owned(info, k, j)
                                THEN [@ EXCEPT ![kj] = Hin[kj]] ELSE @,
                        !.aH = (kj :> Hin[kj]) @@ @]
        ELSE [st EXCEPT !.aH = (kj :> Hin[kj]) @@ @]

\* one pass of the body of the staging loop at node kj; st holds FF, the
\* staged copy aH (a function of the nodes written so far) and the error
StageBody(st, kj, Hin, info, user) ==
    LET k == kj[1]
        j == kj[2]
    IN  IF j < 0 \/ j > info.mx - 1 \/ k < 0 \/ k > info.my - 1 THEN st
        ELSE IF CheckFails(user, Hin[kj])
        THEN [st EXCEPT !.err = Inadmissible(Hin[kj], j, k)]
        ELSE IF OnBoundary(info, k, j)
        THEN [st EXCEPT !.FF = IF Owned(info, k, j)
                                THEN [@ EXCEPT ![kj] = Hin[kj]] ELSE @,
                        !.aH = (kj :> Zero) @@ @]
        ELSE [st EXCEPT !.aH = (kj :> Hin[kj]) @@ @]

RECURSIVE StageLoop(_, _, _, _, _, _)
\* the staging loop from its i-th pass on; SETERRQ3 returns from the function
StageLoop(i, order, st, Hin, info, user) ==
    IF i > Len(order) \/ st.err.code # 0 THEN st
    ELSE StageLoop(i + 1, order, StageBody(st, order[i], Hin, info, user),
                   Hin, info, user)

\* mutant: the element loop starts at (xs, ys), without the layer of
\* elements below and to the left of the owned range
Elements_owned(info) ==
    {e \in (info.ys .. info.ys + info.ym - 1) \X (info.xs .. info.xs + info.xm - 1) :
        ~(e[2] < 0 \/ e[2] >= info.mx - 1 \/ e[1] < 0 \/ e[1] >= info.my - 1)}

\* the elements <<k, j>> the element loop computes fluxes on
Elements(info) ==
    {e \in (info.ys - 1 .. info.ys + info.ym - 1) \X (info.xs - 1 .. info.xs + info.xm - 1) :
        ~(e[2] < 0 \/ e[2] >= info.mx - 1 \/ e[1] < 0 \/ e[1] >= info.my - 1)}

\* Hup: the thickness at the upwinded point of element <<k, j>>, or H
UpwindThickness(c, k, j, H, gb, aH, user) ==
    IF upwind(user.lambda)
    THEN fieldatptArray(j, k, HupPoint(c, gb, user.lambda)[1],
                        HupPoint(c, gb, user.lambda)[2], aH)
    ELSE H

\* qSIA_ckj from the values H, gH, gb computed at quadrature point c
QuadPointFlux(c, k, j, H, gH, gb, aH, user) ==
    InOrder(<<H, gH, gb,
              SIAflux(gH, gb, H, UpwindThickness(c, k, j, H, gb, aH, user),
                      xdire[c + 1], user).q>>)

\* the flux stored in aqquad[c][k][j]
ElementFlux(c, k, j, aH, b, dx, dy, user) ==
    QuadPointFlux(c, k, j,
                  fieldatptArray(j, k, locx[c + 1], locy[c + 1], aH),
                  gradfatptArray(j, k, locx[c + 1], locy[c + 1], dx, dy, aH),
                  gradfatptArray(j, k, locx[c + 1], locy[c + 1], dx, dy, b),
                  aH, user)

RECURSIVE ElementLoopC(_, _, _, _, _, _, _, _)
\* for (c ..< 4) aqquad[c][k][j] = SIAflux(...): the entries written, a
\* function of <<c, <<k, j>>>>
ElementLoopC(c, k, j, aH, b, dx, dy, user) ==
    IF c >= 4 THEN <<>>
    ELSE (<<c, <<k, j>>>> :> ElementFlux(c, k, j, aH, b, dx, dy, user))
         @@ ElementLoopC(c + 1, k, j, aH, b, dx, dy, user)

RECURSIVE ElementLoopJ(_, _, _, _, _, _, _, _)
\* for (j ..< xs+xm), passing over the elements outside the domain
ElementLoopJ(j, k, info, aH, b, dx, dy, user) ==
    IF j >= info.xs + info.xm THEN <<>>
    ELSE (IF <<k, j>> \in Elements(info)
          THEN ElementLoopC(0, k, j, aH, b, dx, dy, user) ELSE <<>>)
         @@ ElementLoopJ(j + 1, k, info, aH, b, dx, dy, user)

RECURSIVE ElementLoopK(_, _, _, _, _, _, _)
\* for (k ..< ys+ym)
ElementLoopK(k, info, aH, b, dx, dy, user) ==
    IF k >= info.ys + info.ym THEN <<>>
    ELSE ElementLoopJ(info.xs - 1, k, info, aH, b, dx, dy, user)
         @@ ElementLoopK(k + 1, info, aH, b, dx, dy, user)

\* aqquad as the element loop leaves it
ElementLoop(info, aH, b, dx, dy, user) ==
    ElementLoopK(info.ys - 1, info, aH, b, dx, dy, user)

\* FF[k][j] at an interior node from the mass balance M there
NodeResidual(old, M, k, j, aq, dx, dy) ==
    InOrder(<<M, QuadSum(0, NodeStart(old, M, dx, dy), k, j, aq, coeff(dx, dy))>>)

\* the node loop: boundary nodes are passed over (continue)
NodeLoop(info, F, aH, b, aq, dx, dy, user) ==
    [kj \in Nodes |->
        IF Owned(info, kj[1], kj[2]) /\ ~OnBoundary(info, kj[1], kj[2])
        THEN NodeResidual(F[kj], M_CMBModel(user.cmb, RAdd(b[kj], aH[kj])),
                          kj[1], kj[2], aq, dx, dy)
        ELSE F[kj]]

\* DMGetLocalVector(info->da, &b) and, for c < 4, (info->da, &(qquad[c]))
BedAndFluxVecs == {"b", "qquad[0]", "qquad[1]", "qquad[2]", "qquad[3]"}
\* the DMRestoreLocalVector calls before PetscFunctionReturn(0)
RestoredVecs == {"qquad[0]", "qquad[1]", "qquad[2]", "qquad[3]", "Hcopy", "b"}

\* the function from the flux arrays aq on: the node loop and the return
NodePhase(info, st, aq, b, dx, dy, user) ==
    [err |-> NoError, aqquad |-> aq,
     FF |-> NodeLoop(info, st.FF, st.aH, b, aq, dx, dy, user),
     held |-> (st.held \cup BedAndFluxVecs) \ RestoredVecs]

\* the function from the state st the staging loop left on
FluxPhase(info, st, b, dx, dy, user) ==
    IF st.err.code # 0
    THEN [err |-> st.err, aqquad |-> <<>>, FF |-> st.FF, held |-> st.held]
    ELSE NodePhase(info, st, ElementLoop(info, st.aH, b, dx, dy, user),
                   b, dx, dy, user)

\* what FormFunctionLocal(info, Hin, F, user) returns (err) and leaves in
\* the flux arrays (aqquad) and in the residual array (FF), and the local
\* vectors it has not given back (held); the staging loop starts with Hcopy
FormFunctionLocal(info, Hin, F, b, user) ==
    FluxPhase(info,
              StageLoop(1, StageOrder(info),
                        [FF |-> F, aH |-> <<>>, err |-> NoError, held |-> {"Hcopy"}],
                        Hin, info, user),
              b, RDiv(user.L, I(info.mx - 1)), RDiv(user.L, I(info.my - 1)), user)

(***************************************************************************)
(* ice.c FormIFunctionLocal.  The grid is periodic: aH carries a layer of  *)
(* ghost values copied from the opposite side.  am, ab and aqquad are      *)
(* declared and never set: every access through them is undefined.  The    *)
(* outcomes are followed: the process is killed, or the accesses land in   *)
(* memory that behaves as three arrays, ab holding whatever b was there;   *)
(* the third array is either apart from everything else or, am holding a   *)
(* stale address, the array of the iterate itself.                         *)
(***************************************************************************)
\* mutant: a ghost value is the value of the nearest node of the grid
Periodic_clamped(f) ==
    [kj \in GhostNodes |->
        f[<<IF kj[1] < 0 THEN 0 ELSE IF kj[1] > MY - 1 THEN MY - 1 ELSE kj[1],
            IF kj[2] < 0 THEN 0 ELSE IF kj[2] > MX - 1 THEN MX - 1 ELSE kj[2]>>]]

\* the local array of the global field f: ghost values wrap around
Periodic(f) == [kj \in GhostNodes |-> f[<<kj[1] % MY, kj[2] % MX>>]]

\* for (k = ys-1; k < ys+ym; k++) for (j = xs-1; j < xs+xm; j++)
IceElements(info) ==
    (info.ys - 1 .. info.ys + info.ym - 1) \X (info.xs - 1 .. info.xs + info.xm - 1)

\* Hup: the thickness at the upwinded point of element <<k, j>>, or H
IceUpwindThickness(c, k, j, H, gb, aH, user) ==
    IF upwind(user.lambda)
    THEN ice_fieldatpt(j, k, HupPoint(c, gb, user.lambda)[1],
                       HupPoint(c, gb, user.lambda)[2], aH)
    ELSE H

\* the flux from the values H, gH, gb computed at quadrature point c
IceQuadPointFlux(c, k, j, H, gH, gb, aH, user) ==
    InOrder(<<H, gH, gb,
              getflux(gH, gb, H, IceUpwindThickness(c, k, j, H, gb, aH, user),
                      xdire[c + 1], user)>>)

\* the flux stored in aqquad[k][j][c]
IceElementFlux(c, k, j, aH, b, dx, dy, user) ==
    IceQuadPointFlux(c, k, j,
                     ice_fieldatpt(j, k, locx[c + 1], locy[c + 1], aH),
                     ice_gradfatpt(j, k, locx[c + 1], locy[c + 1], dx, dy, aH),
                     ice_gradfatpt(j, k, locx[c + 1], locy[c + 1], dx, dy, b),
                     aH, user)

RECURSIVE IceElementLoopC(_, _, _, _, _, _, _, _)
\* for (c ..< 4) aqquad[k][j][c] = getflux(...): the entries written, a
\* function of <<c, <<k, j>>>>
IceElementLoopC(c, k, j, aH, b, dx, dy, user) ==
    IF c >= 4 THEN <<>>
    ELSE (<<c, <<k, j>>>> :> IceElementFlux(c, k, j, aH, b, dx, dy, user))
         @@ IceElementLoopC(c + 1, k, j, aH, b, dx, dy, user)

RECURSIVE IceElementLoopJ(_, _, _, _, _, _, _, _)
\* for (j ..< xs+xm)
IceElementLoopJ(j, k, info, aH, b, dx, dy, user) ==
    IF j >= info.xs + info.xm THEN <<>>
    ELSE IceElementLoopC(0, k, j, aH, b, dx, dy, user)
         @@ IceElementLoopJ(j + 1, k, info, aH, b, dx, dy, user)

RECURSIVE IceElementLoopK(_, _, _, _, _, _, _)
\* for (k ..< ys+ym)
IceElementLoopK(k, info, aH, b, dx, dy, user) ==
    IF k >= info.ys + info.ym THEN <<>>
    ELSE IceElementLoopJ(info.xs - 1, k, info, aH, b, dx, dy, user)
         @@ IceElementLoopK(k + 1, info, aH, b, dx, dy, user)

\* aqquad as the element loop leaves it
IceElementLoop(info, aH, b, dx, dy, user) ==
    IceElementLoopK(info.ys - 1, info, aH, b, dx, dy, user)

\* the CMB loop and the node loop; main sets user.cmb = &cmb, so the CMB
\* is computed
IceNodeLoop(info, F, aH, b, aq, dx, dy, user) ==
    [kj \in Nodes |->
        IF Owned(info, kj[1], kj[2])
        THEN NodeResidual(F[kj], M_CMBModel(user.cmb, RAdd(b[kj], aH[kj])),
                          kj[1], kj[2], aq, dx, dy)
        ELSE F[kj]]

\* the function from the flux array aq on: the CMB loop and the node loop
IceNodePhase(info, aH, F, b, aq, dx, dy, user) ==
    [aqquad |-> aq, FF |-> IceNodeLoop(info, F, aH, b, aq, dx, dy, user)]

\* the flux array (aqquad) and the residual array (FF) as
\* FormIFunctionLocal(info, t, aH, aHdot, FF, user) leaves them when it is
\* not killed; t and aHdot are not read
FormIFunctionLocal(info, aH, Hdot, F, b, user) ==
    IceNodePhase(info, aH, F, b,
                 IceElementLoop(info, aH, b, RDiv(user.L, I(info.mx)),
                                RDiv(user.L, I(info.my)), user),
                 RDiv(user.L, I(info.mx)), RDiv(user.L, I(info.my)), user)

(***************************************************************************)
(* Spec: the residual evaluations of a run.  An evaluation is collective:  *)
(* every process evaluates the residual of the same iterate on its own     *)
(* part of the grid.                                                       *)
(***************************************************************************)
Ranks == 0 .. nproc - 1

ConstField(v) == [kj \in GhostNodes |-> I(v)]
OnNodes(f) == [kj \in Nodes |-> f[kj]]
\* 0, 1, 2 repeating along the diagonals
Hill == [kj \in GhostNodes |-> I((kj[2] + 2 * kj[1] + 3) % 3)]
\* 0, 1 alternating in x
Stripes == [kj \in GhostNodes |-> I((kj[2] + 2) % 2)]
Spike(base, kj, v) == [base EXCEPT ![kj] = I(v)]

\* dnl: two constant fields, an uneven one, and the uneven one with a
\* negative value at an interior node, at the first node and at the last
\* node of the grid
DnlIterates ==
    {OnNodes(f) : f \in {ConstField(0), ConstField(1), Hill,
                         Spike(Hill, <<1, 1>>, -1), Spike(Hill, <<0, 0>>, -1),
                         Spike(Hill, <<MY - 1, MX - 1>>, -2)}}

\* ice: the time derivatives the integrator hands over
IceRates == {OnNodes(ConstField(0)), OnNodes(ConstField(1))}

\* ice: two constant fields and an uneven one with a negative value, with
\* the time derivative each comes with
IceInputs ==
    {[u |-> OnNodes(ConstField(0)), hd |-> OnNodes(ConstField(0))],
     [u |-> OnNodes(ConstField(1)), hd |-> OnNodes(ConstField(1))],
     [u |-> OnNodes(Spike(ConstField(1), <<0, 0>>, -1)), hd |-> OnNodes(ConstField(0))]}

\* ice: the input followed when am holds the address of the iterate
AliasedInputs == {in \in IceInputs : in.u = OnNodes(ConstField(1))}

\* a flat bed and an uneven bed
Beds == {ConstField(0), Stripes}

\* the exponent 1 keeps the values of the uneven iterates in range; the
\* obstacle problem (psi = hemisphere) is followed with the check asked for
DnlUsers ==
    {u \in [n_ice : {I(1)}, Gamma : {I(2)}, delta : {Rat(1, 2)}, eps : {Rat(1, 4)},
            D0 : {I(3)}, lambda : {Rat(1, 2)}, L : {I(6)},
            cmb : {[ela |-> One, zgrad |-> Rat(1, 2)]},
            check_admissible : BOOLEAN,
            psi : {"zero", "hemisphere"}] :
        u.psi = "hemisphere" => u.check_admissible}

IceUsers ==
    [n_ice : {I(3)}, Gamma : {One}, delta : {One}, eps : {Rat(1, 2)},
     D0 : {I(2)}, lambda : {Rat(1, 2)}, L : {One},
     cmb : {[ela |-> One, zgrad |-> z] : z \in {Zero, Rat(1, 2)}}]

\* dnl: the bed is the one the bed provider fills in at every evaluation;
\* ice: no bed has been read yet
ResInit ==
    /\ \/ prog = "dnl" /\ uctx \in DnlUsers /\ ab \in Beds
       \/ prog = "ice" /\ uctx \in IceUsers /\ ab = ConstField(0)
    /\ nproc \in {1, 2}
    /\ aHin = OnNodes(ConstField(0))
    /\ aHout = OnNodes(ConstField(0))
    /\ aHdot = OnNodes(ConstField(0))
    /\ FF = OnNodes(ConstField(0))
    /\ ret = [r \in 0 .. nproc - 1 |-> NoError]
    /\ held = [r \in 0 .. nproc - 1 |-> {}]
    /\ ncalls = 0
    /\ KerIdle /\ CfgIdle

\* no process has failed or been killed
Running == \A r \in Ranks : ret[r].code = 0

\* acc after one more process has returned res
Returned(acc, res) ==
    [FF |-> res.FF, ret |-> Append(acc.ret, res.err),
     held |-> Append(acc.held, res.held)]

RECURSIVE DnlRanks(_, _, _)
\* the processes r, r+1, ... evaluate the residual of u; acc holds the
\* residual array and what the processes before r returned
DnlRanks(r, u, acc) ==
    IF r >= nproc THEN acc
    ELSE DnlRanks(r + 1, u,
                  Returned(acc, FormFunctionLocal(LocalInfo(r, nproc), u, acc.FF,
                                                  ab, uctx)))

\* dnl.c: SNES evaluates the residual of the iterate u
SNESComputeFunction(u) ==
    /\ prog = "dnl"
    /\ Running
    /\ ncalls < MaxCalls
    /\ \E res \in {DnlRanks(0, u, [FF |-> FF, ret |-> <<>>, held |-> <<>>])} :
           /\ ret' = [r \in Ranks |-> res.ret[r + 1]]
           /\ held' = [r \in Ranks |-> held[r] \cup res.held[r + 1]]
           /\ FF' = res.FF
    /\ aHin' = u
    /\ aHout' = u
    /\ ncalls' = ncalls + 1
    /\ UNCHANGED <<prog, nproc, uctx, ab, aHdot, kerVars, cfgVars>>

RECURSIVE IceRanks(_, _, _, _, _)
IceRanks(r, u, hd, b, F) ==
    IF r >= nproc THEN F
    ELSE IceRanks(r + 1, u, hd, b,
                  FormIFunctionLocal(LocalInfo(r, nproc), Periodic(u), hd, F, b,
                                     uctx).FF)

\* ice.c: TS evaluates the residual of the iterate u with the time
\* derivative hd and the accesses through ab find the values b
TSComputeIFunction(u, hd, b) ==
    /\ prog = "ice"
    /\ Running
    /\ ncalls < MaxCalls
    /\ FF' = IceRanks(0, u, hd, b, FF)
    /\ aHdot' = hd
    /\ ab' = b
    /\ aHin' = u
    /\ aHout' = u
    /\ ncalls' = ncalls + 1
    /\ UNCHANGED <<prog, nproc, uctx, ret, held, kerVars, cfgVars>>

\* ice.c: TS evaluates the residual of the iterate u, the accesses through
\* ab find the values b, and am holds the address of the array aH of the
\* iterate: the CMB loop (line 382) stores the mass balance over the
\* iterate at every owned node, and line 399 reads it back
TSComputeIFunctionAliased(u, hd, b) ==
    /\ prog = "ice"
    /\ Running
    /\ ncalls < MaxCalls
    /\ FF' = IceRanks(0, u, hd, b, FF)
    /\ aHdot' = hd
    /\ ab' = b
    /\ aHin' = u
    /\ aHout' = [kj \in Nodes |-> M_CMBModel(uctx.cmb, RAdd(b[kj], u[kj]))]
    /\ ncalls' = ncalls + 1
    /\ UNCHANGED <<prog, nproc, uctx, ret, held, kerVars, cfgVars>>

\* ice.c: TS evaluates the residual and an access through am, ab or aqquad
\* kills the processes
TSComputeIFunctionKilled(u, hd) ==
    /\ prog = "ice"
    /\ Running
    /\ ncalls < MaxCalls
    /\ ret' = [r \in Ranks |-> Killed]
    /\ aHin' = u
    /\ aHdot' = hd
    /\ aHout' = u
    /\ ncalls' = ncalls + 1
    /\ UNCHANGED <<prog, nproc, uctx, ab, FF, held, kerVars, cfgVars>>

Next ==
    \/ \E u \in DnlIterates : SNESComputeFunction(u)
    \/ \E in \in IceInputs : \E b \in Beds : TSComputeIFunction(in.u, in.hd, b)
    \/ \E in \in AliasedInputs : TSComputeIFunctionAliased(in.u, in.hd, ConstField(0))
    \/ \E in \in IceInputs : TSComputeIFunctionKilled(in.u, in.hd)

Spec == ResInit /\ [][Next]_vars

(***************************************************************************)
(* Properties of the residual evaluations.                                 *)
(***************************************************************************)
\* an evaluation has been made and process r returned from it without error
Succeeded(r) == ncalls > 0 /\ ret[r].code = 0

OwnedNodes(r) ==
    {kj \in Nodes : Owned(LocalInfo(r, nproc), kj[1], kj[2])}

\* the nodes with j = 0, j = mx-1, k = 0 or k = my-1
BoundaryNodes ==
    {kj \in Nodes : kj[2] = 0 \/ kj[2] = MX - 1 \/ kj[1] = 0 \/ kj[1] = MY - 1}

\* C2: after a successful FormFunctionLocal call of dnl, the residual at
\* every locally owned boundary node equals the iterate value at that node
\* minus the prescribed boundary value zero, whatever the iterate is at
\* the interior nodes.
C2_BoundaryResidual ==
    prog = "dnl" =>
        \A r \in Ranks :
            Succeeded(r) =>
                \A kj \in OwnedNodes(r) \cap BoundaryNodes :
                    FF[kj] = RSub(aHin[kj], Zero)

\* a successful evaluation of an iterate that is non-zero at a boundary
\* node and at an interior node, where the node loop left a residual that
\* differs from the iterate
C2_Witness ==
    /\ prog = "dnl"
    /\ \A r \in Ranks : Succeeded(r)
    /\ \E kj \in BoundaryNodes : aHin[kj] # Zero /\ FF[kj] = aHin[kj]
    /\ \E kj \in Nodes \ BoundaryNodes : aHin[kj] # Zero /\ FF[kj] # aHin[kj]

\* the iterate is the constant H0 >= 0
UniformThickness == \E h \in 0 .. 2 : aHin = OnNodes(ConstField(h))
\* the climatic mass balance is zero at every node: its gradient is zero,
\* or the surface is at the equilibrium line altitude everywhere
ZeroCMB ==
    \/ uctx.cmb.zgrad = Zero
    \/ \A kj \in Nodes : RAdd(ab[kj], aHin[kj]) = uctx.cmb.ela
\* the bed read has the same elevation everywhere
UniformBed == \A kj \in GhostNodes : ab[kj] = ab[<<0, 0>>]
ZeroResidual == \A r \in Ranks : \A kj \in OwnedNodes(r) : FF[kj] = Zero
IceEvaluated == prog = "ice" /\ ncalls > 0 /\ Running

\* C3 as stated: for a constant thickness H0 >= 0 and zero CMB the
\* residual of FormIFunctionLocal is zero at every owned node, whatever
\* the bed is.
C3_AsStated ==
    (IceEvaluated /\ UniformThickness /\ ZeroCMB) => ZeroResidual

\* C3: for a constant thickness H0 >= 0 and zero CMB the residual of
\* FormIFunctionLocal is zero at every owned node when the bed read has
\* uniform elevation or H0 = 0.
C3_UniformResidual ==
    (/\ IceEvaluated /\ UniformThickness /\ ZeroCMB
     /\ (UniformBed \/ aHin = OnNodes(ConstField(0))))
        => ZeroResidual

\* a constant positive thickness on a flat bed whose surface lies at the
\* equilibrium line, with a non-zero CMB gradient, evaluated to zero
C3_Witness ==
    /\ IceEvaluated /\ ZeroCMB /\ UniformBed
    /\ aHin = OnNodes(ConstField(1))
    /\ uctx.cmb.zgrad # Zero
    /\ ZeroResidual

\* the in-domain nodes of the owned range of process r extended by one
\* layer of ghost nodes
GhostedRange(r) ==
    LET info == LocalInfo(r, nproc)
    IN  {kj \in Nodes : /\ kj[1] >= info.ys - 1 /\ kj[1] <= info.ys + info.ym
                        /\ kj[2] >= info.xs - 1 /\ kj[2] <= info.xs + info.xm}

NegativeNodes(r) == {kj \in GhostedRange(r) : RLt(aHin[kj], Zero)}

\* C9: without check_admissible FormFunctionLocal never returns an
\* admissibility error; with it, it returns the error exactly when a node
\* of its ghosted range holds a negative iterate value, and the error
\* carries the index (j,k) and the value of such a node.
C9_Admissibility ==
    (prog = "dnl" /\ ncalls > 0) =>
        \A r \in Ranks :
            /\ ~uctx.check_admissible => ret[r].code = 0
            /\ uctx.check_admissible => (ret[r].code # 0 <=> NegativeNodes(r) # {})
            /\ ret[r].code # 0 =>
                   /\ ret[r].code = 1
                   /\ <<ret[r].k, ret[r].j>> \in NegativeNodes(r)
                   /\ ret[r].val = aHin[<<ret[r].k, ret[r].j>>]

\* with the check asked for, a process fails on a negative value at a
\* ghost node it does not own while the owner of the node fails too
C9_Witness ==
    /\ prog = "dnl" /\ ncalls > 0 /\ uctx.check_admissible /\ nproc = 2
    /\ \E r \in Ranks :
           /\ ret[r].code = 1
           /\ <<ret[r].k, ret[r].j>> \notin OwnedNodes(r)
           /\ RLt(ret[r].val, Zero)

\* residual contents that no evaluation leaves behind
Scratch == [kj \in Nodes |-> I(7)]

\* the residual array process r leaves when it starts from Scratch
FromScratch(r) ==
    IF prog = "dnl"
    THEN FormFunctionLocal(LocalInfo(r, nproc), aHin, Scratch, ab, uctx).FF
    ELSE FormIFunctionLocal(LocalInfo(r, nproc), Periodic(aHin), aHdot, Scratch,
                            ab, uctx).FF

\* C10: after a successful residual evaluation every locally owned entry
\* of FF is the one the call computes from its inputs alone: the same
\* whatever FF held before, in particular after earlier evaluations.
C10_Overwritten ==
    \A r \in Ranks :
        Succeeded(r) =>
            LET G == FromScratch(r)
            IN  \A kj \in OwnedNodes(r) : FF[kj] = G[kj]

\* a second successful evaluation whose residual is non-zero at an
\* interior node and differs from the residual array it started from
C10_Witness ==
    /\ ncalls = MaxCalls
    /\ \A r \in Ranks : Succeeded(r)
    /\ FF[<<1, 1>>] # Zero
    /\ aHin # OnNodes(ConstField(0))

(***************************************************************************)
(* FormBounds: the bounds handed to the variational-inequality solver.     *)
(* Xl and Xu are global vectors; each process sets the entries it owns.    *)
(***************************************************************************)
\* at most MaxProcs processes share the grid
MaxProcs == 4

PETSC_INFINITY == <<"inf">>

\* the square root of a >= 0: exact when a is the square of a rational,
\* kept as a term otherwise
PetscSqrtReal(a) ==
    IF \E s \in 0 .. a[1] : s * s = a[1] /\ \E t \in 1 .. a[2] : t * t = a[2]
    THEN <<CHOOSE s \in 0 .. a[1] : s * s = a[1], CHOOSE t \in 1 .. a[2] : t * t = a[2]>>
    ELSE <<"sqrt", a>>

\* dnl.c hemisphere(x,y); psi0 = sqrt(1 - r0*r0) is not rational, so the
\* value psi0 + dpsi0 * (r - r0) of the outer branch is kept as a term
hemisphere(x, y) ==
    IF RLe(RAdd(RMul(x, x), RMul(y, y)), Rat(9, 10))
    THEN PetscSqrtReal(RSub(One, RAdd(RMul(x, x), RMul(y, y))))
    ELSE <<"psi0 + dpsi0 * (r - r0)",
           PetscSqrtReal(RSub(One, RMul(Rat(9, 10), Rat(9, 10)))),
           RSub(RAdd(RMul(x, x), RMul(y, y)), Rat(9, 10))>>

\* dnl.c zero(x,y)
zero(x, y) == Zero

\* (*(user->psi))(x,y)
CallPsi(psi, x, y) == IF psi = "hemisphere" THEN hemisphere(x, y) ELSE zero(x, y)

\* dnl.c main, lines 177-188: the domain and the obstacle of each problem
DnlProblem(problem) ==
    IF problem = "ice"
    THEN [xymin |-> <<Zero, Zero>>, xymax |-> <<I(1800000), I(1800000)>>, psi |-> "zero"]
    ELSE [xymin |-> <<I(-2), I(-2)>>, xymax |-> <<I(2), I(2)>>, psi |-> "hemisphere"]

\* mutant: the spacing of a periodic grid
BoundsSpacing_periodic(lo, hi, m) == RDiv(RSub(hi, lo), I(m))

\* dx = (xymax[0] - xymin[0]) / (info.mx - 1)
BoundsSpacing(lo, hi, m) == RDiv(RSub(hi, lo), I(m - 1))

\* VecSet(v, a) on one process: the entries the process owns
VecSet(v, info, a) ==
    [kj \in Nodes |-> IF Owned(info, kj[1], kj[2]) THEN a ELSE v[kj]]

\* aXl[j][i] = (*(user->psi))(x,y) with x = xymin[0] + i * dx,
\* y = xymin[1] + j * dy; a node is <<j, i>> here
ObstacleAt(kj, dx, dy, pb) ==
    CallPsi(pb.psi, RAdd(pb.xymin[1], RMul(I(kj[2]), dx)),
                    RAdd(pb.xymin[2], RMul(I(kj[1]), dy)))

\* dnl.c FormBounds on the process with local info: Xl and Xu as it leaves
\* them
DnlFormBounds(info, pb, Xl, Xu) ==
    [Xl |-> [kj \in Nodes |->
                IF Owned(info, kj[1], kj[2])
                THEN ObstacleAt(kj, BoundsSpacing(pb.xymin[1], pb.xymax[1], info.mx),
                                BoundsSpacing(pb.xymin[2], pb.xymax[2], info.my), pb)
                ELSE Xl[kj]],
     Xu |-> VecSet(Xu, info, PETSC_INFINITY)]

\* ice.c FormBounds on the process with local info
IceFormBounds(info, Xl, Xu) ==
    [Xl |-> VecSet(Xl, info, Zero), Xu |-> VecSet(Xu, info, PETSC_INFINITY)]

\* the runs followed: the program and its problem, the number of processes
\* and what the vectors hold before the call
BoundsRuns ==
    [prog : {"dnl"}, problem : {"obstacle", "ice"}, np : 1 .. MaxProcs, old : {I(7), I(-1)}]
    \cup [prog : {"ice"}, problem : {"ice"}, np : 1 .. MaxProcs, old : {I(7), I(-1)}]

BoundsInit ==
    /\ kin \in BoundsRuns
    /\ kout = [op |-> "FormBounds", done |-> {},
               Xl |-> [kj \in Nodes |-> kin.old], Xu |-> [kj \in Nodes |-> kin.old]]
    /\ CfgIdle /\ ResIdle

\* dnl.c: process r returns from FormBounds
CallDnlFormBounds(r) ==
    /\ kin.prog = "dnl" /\ r < kin.np /\ r \notin kout.done
    /\ \E b \in {DnlFormBounds(LocalInfo(r, kin.np), DnlProblem(kin.problem),
                               kout.Xl, kout.Xu)} :
           kout' = [kout EXCEPT !.done = @ \cup {r}, !.Xl = b.Xl, !.Xu = b.Xu]
    /\ UNCHANGED <<kin, cfgVars, resVars>>

\* ice.c: process r returns from FormBounds
CallIceFormBounds(r) ==
    /\ kin.prog = "ice" /\ r < kin.np /\ r \notin kout.done
    /\ \E b \in {IceFormBounds(LocalInfo(r, kin.np), kout.Xl, kout.Xu)} :
           kout' = [kout EXCEPT !.done = @ \cup {r}, !.Xl = b.Xl, !.Xu = b.Xu]
    /\ UNCHANGED <<kin, cfgVars, resVars>>

BoundsNext ==
    \/ \E r \in 0 .. MaxProcs - 1 : CallDnlFormBounds(r)
    \/ \E r \in 0 .. MaxProcs - 1 : CallIceFormBounds(r)

SpecBounds == BoundsInit /\ [][BoundsNext]_vars

\* the point of the domain that lies i/(mx-1) of the way from xmin to xmax
\* and j/(my-1) of the way from ymin to ymax
DomainPoint(i, j, pb) ==
    <<RAdd(pb.xymin[1], RDiv(RMul(I(i), RSub(pb.xymax[1], pb.xymin[1])), I(MX - 1))),
      RAdd(pb.xymin[2], RDiv(RMul(I(j), RSub(pb.xymax[2], pb.xymin[2])), I(MY - 1)))>>

\* the lower bound the formulation of the run asks for at node <<j, i>>
ExpectedLower(kj) ==
    IF kin.problem = "ice" THEN Zero
    ELSE hemisphere(DomainPoint(kj[2], kj[1], DnlProblem("obstacle"))[1],
                    DomainPoint(kj[2], kj[1], DnlProblem("obstacle"))[2])

BoundsOwned(r) == {kj \in Nodes : Owned(LocalInfo(r, kin.np), kj[1], kj[2])}

\* C11: after FormBounds returns on a process, the lower bound at every
\* node the process owns is 0 in the ice-thickness formulation and
\* psi(x_i, y_j) in the general obstacle formulation, and the upper bound
\* there is +infinity; once every process has returned this holds at every
\* node.
C11_Bounds ==
    kout.op = "FormBounds" =>
        /\ \A r \in kout.done : \A kj \in BoundsOwned(r) :
               kout.Xl[kj] = ExpectedLower(kj) /\ kout.Xu[kj] = PETSC_INFINITY
        /\ kout.done = 0 .. kin.np - 1 =>
               \A kj \in Nodes :
                   kout.Xl[kj] = ExpectedLower(kj) /\ kout.Xu[kj] = PETSC_INFINITY

\* the obstacle run on two processes, both returned: the lower bound is the
\* hemisphere, sqrt(5/9) at the node <<1, 1>> and the outer branch at the
\* corner
C11_Witness ==
    /\ kout.op = "FormBounds" /\ kin.prog = "dnl" /\ kin.problem = "obstacle"
    /\ kin.np = 2 /\ kout.done = {0, 1}
    /\ kout.Xl[<<1, 1>>] = <<"sqrt", Rat(5, 9)>>
    /\ kout.Xl[<<0, 0>>][1] = "psi0 + dpsi0 * (r - r0)"
    /\ \A kj \in Nodes : kout.Xu[kj] = PETSC_INFINITY

(***************************************************************************)
(* What a residual evaluation writes.                                      *)
(***************************************************************************)
\* C12 as stated: a residual evaluation writes FF only at nodes of the
\* owned range of its process and leaves the iterate it was given, ghost
\* values included, as it was.
C12_AsStated ==
    ncalls > 0 =>
        /\ aHout = aHin
        /\ \A r \in Ranks :
               LET G == FromScratch(r)
               IN  \A kj \in Nodes \ OwnedNodes(r) : G[kj] = Scratch[kj]

(***************************************************************************)
(* The local vectors FormFunctionLocal takes from the DM.                  *)
(***************************************************************************)
\* C13 as stated: whichever way FormFunctionLocal returned, every local
\* vector the call took (the staged copy, the bed and the four flux
\* vectors) has been given back: after any sequence of evaluations no
\* process holds one.
C13_AsStated ==
    prog = "dnl" => \A r \in Ranks : held[r] = {}

\* a call that completes gives back the six vectors it took
C13_Completed ==
    prog = "dnl" => \A r \in Ranks : Succeeded(r) => held[r] = {}

(***************************************************************************)
(* What the implicit residual of ice is made of.                           *)
(***************************************************************************)
\* the residual array process r of ice leaves for the same thickness and
\* bed when the CMB gradient is zero: the sum of the fluxes alone
FluxDivergence(r) ==
    FormIFunctionLocal(LocalInfo(r, nproc), Periodic(aHin), aHdot, Scratch, ab,
                       [uctx EXCEPT !.cmb.zgrad = Zero]).FF

\* C14 as stated: the residual FormIFunctionLocal produces at every owned
\* node is the weighted sum of the 8 fluxes alone: it holds no CMB term
\* and is the same whatever the CMB parameters ela and zgrad are.
C14_AsStated ==
    IceEvaluated =>
        \A r \in Ranks :
            LET G == FluxDivergence(r)
            IN  \A kj \in OwnedNodes(r) : FF[kj] = G[kj]

\* the residual array process r of ice leaves for the same thickness and
\* bed when the time derivative handed over is hd
WithRate(r, hd) ==
    FormIFunctionLocal(LocalInfo(r, nproc), Periodic(aHin), hd, Scratch, ab,
                       uctx).FF

\* C15 as stated: the residual FormIFunctionLocal produces at a node
\* depends on the time derivative aHdot handed over at that node: the same
\* thickness with another aHdot[k][j] gives another FF[k][j].
C15_AsStated ==
    IceEvaluated =>
        \A r \in Ranks : \A hd \in IceRates :
            LET G == WithRate(r, hd)
            IN  \A kj \in OwnedNodes(r) : hd[kj] # aHdot[kj] => G[kj] # FF[kj]

(***************************************************************************)
(* Errors of the configuration in main of ice.                             *)
(***************************************************************************)
\* C16 as stated: a configuration error is fatal before any grid work:
\* whenever SetFromOptionsAppCtx or SetFromOptionsCMBModel has returned an
\* error, main has stopped with it: it is not about to create the grid and
\* goes on to no solve.
C16_AsStated ==
    ierr # 0 => pc = "exit"

(***************************************************************************)
(* dnl: the values of the iterate at the boundary nodes.                   *)
(***************************************************************************)
\* the iterate with the value v at every boundary node
WithBoundary(u, v) ==
    [kj \in Nodes |-> IF kj \in BoundaryNodes THEN I(v) ELSE u[kj]]

\* the values put at the boundary nodes
BoundaryValues == {5, -3}

\* C17: in dnl the residual at every owned node off the boundary does not
\* depend on the values of the iterate at the boundary nodes: an iterate
\* that agrees with the evaluated one at the interior nodes and differs
\* at boundary nodes only gives, when its evaluation completes too, the
\* same residual at every interior node.
C17_BoundaryIndependent ==
    (prog = "dnl" /\ \A r \in Ranks : Succeeded(r)) =>
        \A v \in BoundaryValues : \A r \in Ranks :
            LET G == FormFunctionLocal(LocalInfo(r, nproc), WithBoundary(aHin, v),
                                       Scratch, ab, uctx)
            IN  G.err.code = 0 =>
                    \A kj \in OwnedNodes(r) \ BoundaryNodes : FF[kj] = G.FF[kj]

\* a completed evaluation on two processes of an iterate that is non-zero
\* at boundary nodes, with a non-zero residual at an interior node, which
\* the iterate with 5 at the boundary nodes shares
C17_Witness ==
    /\ prog = "dnl" /\ nproc = 2
    /\ \A r \in Ranks : Succeeded(r)
    /\ \E kj \in BoundaryNodes : aHin[kj] # Zero
    /\ FF[<<1, 1>>] # Zero
    /\ FormFunctionLocal(LocalInfo(0, nproc), WithBoundary(aHin, 5), Scratch,
                         ab, uctx).FF[<<1, 1>>] = FF[<<1, 1>>]

(***************************************************************************)
(* dnl: what a failed evaluation leaves in FF.                             *)
(***************************************************************************)
\* process r returned the admissibility error
Failed(r) == prog = "dnl" /\ ncalls > 0 /\ ret[r].code = 1

\* the staging loop visits node kj before the node the error names
BeforeError(r, kj) ==
    \/ kj[1] < ret[r].k
    \/ kj[1] = ret[r].k /\ kj[2] < ret[r].j

BelowHemisphere(u, x, y) ==
    LET r == RAdd(RMul(x, x), RMul(y, y))
        r0 == Rat(9, 10)
        s == RSub(One, RMul(r0, r0))
        c == RSub(s, RMul(r0, RSub(r, r0)))
    IN  IF RLe(r, r0)
        THEN RLt(u, Zero) \/ RLt(RMul(u, u), RSub(One, r))
        ELSE IF RLe(Zero, u)
        THEN RLt(Zero, c) /\ RLt(RMul(RMul(u, u), s), RMul(c, c))
        ELSE RLe(Zero, c) \/ RLt(RMul(c, c), RMul(RMul(u, u), s))

\* the iterate is below the obstacle of the problem at node <<k, j>>
BelowObstacle(kj) ==
    IF uctx.psi = "hemisphere"
    THEN BelowHemisphere(aHin[kj],
                         DomainPoint(kj[2], kj[1], DnlProblem("obstacle"))[1],
                         DomainPoint(kj[2], kj[1], DnlProblem("obstacle"))[2])
    ELSE RLt(aHin[kj], zero(Zero, Zero))

\* C19 as stated: with check_admissible the evaluation verifies the
\* admissibility of the active formulation: a node of the ghosted range
\* where the iterate is below the obstacle psi of the problem (0 in the
\* ice problem, the hemisphere in the obstacle problem) makes
\* FormFunctionLocal return the error.
C19_AsStated ==
    (prog = "dnl" /\ ncalls > 0 /\ uctx.check_admissible) =>
        \A r \in Ranks :
            (\E kj \in GhostedRange(r) : BelowObstacle(kj)) => ret[r].code # 0

\* in the ice problem the check reports every value below the obstacle 0
C19_IceProblem ==
    (prog = "dnl" /\ ncalls > 0 /\ uctx.check_admissible /\ uctx.psi = "zero") =>
        \A r \in Ranks :
            (\E kj \in GhostedRange(r) : BelowObstacle(kj)) => ret[r].code # 0

(***************************************************************************)
(* The quadrature points on the boundary of the control volume of a node.  *)
(* Node (j,k) lies at (j*dx, k*dy); element (J,K) has node (J,K) as its    *)
(* lower left corner and local coordinates in [0,1] x [0,1].               *)
(***************************************************************************)
\* the term s of  FF[k][j] += coeff[s] * aqquad[k+ke[s]][j+je[s]][ce[s]]:
\* the weight, the element and the point c of it whose flux is read, and
\* where and in which direction the element loop evaluated that flux
\* (locx[c], locy[c], xdire[c])
QuadTerm(s, j, k, dx, dy) ==
    [w |-> coeff(dx, dy)[s + 1],
     elem |-> <<j + je[s + 1], k + ke[s + 1]>>,
     c |-> ce[s + 1],
     loc |-> <<locx[ce[s + 1] + 1], locy[ce[s + 1] + 1]>>,
     xdir |-> xdire[ce[s + 1] + 1]]

QuadInit ==
    /\ kin \in [s : 0 .. 7, j : 0 .. MX - 1, k : 0 .. MY - 1,
                dx : Spacings, dy : Spacings]
    /\ kout = [op |-> "none"]
    /\ CfgIdle /\ ResIdle

CallQuadTerm ==
    /\ kout.op = "none"
    /\ kout' = [op |-> "QuadTerm",
                term |-> QuadTerm(kin.s, kin.j, kin.k, kin.dx, kin.dy)]
    /\ UNCHANGED <<kin, cfgVars, resVars>>

QuadNext == CallQuadTerm

SpecQuad == QuadInit /\ [][QuadNext]_vars

REq(a, b) == a[1] * b[2] = b[1] * a[2]

\* the offset of the quadrature point of term t from node (kin.j, kin.k)
OffX(t) == RSub(RMul(RAdd(I(t.elem[1]), t.loc[1]), kin.dx), RMul(I(kin.j), kin.dx))
OffY(t) == RSub(RMul(RAdd(I(t.elem[2]), t.loc[2]), kin.dy), RMul(I(kin.k), kin.dy))

\* |a| <= b
Within(a, b) == RLe(RNeg(b), a) /\ RLe(a, b)

\* the side of the control volume [x_j - dx/2, x_j + dx/2] x
\* [y_k - dy/2, y_k + dy/2] the point of term t lies on
Side(t) ==
    LET hx == RDiv(kin.dx, I(2))
        hy == RDiv(kin.dy, I(2))
    IN  IF REq(OffX(t), hx) /\ Within(OffY(t), hy) THEN "east"
        ELSE IF REq(OffX(t), RNeg(hx)) /\ Within(OffY(t), hy) THEN "west"
        ELSE IF REq(OffY(t), hy) /\ Within(OffX(t), hx) THEN "north"
        ELSE IF REq(OffY(t), RNeg(hy)) /\ Within(OffX(t), hx) THEN "south"
        ELSE "off"

\* C20: for every s in 0..7 the quadrature point of term s lies on the
\* boundary of the control volume of the node, two points on each of the
\* four sides; the flux direction xdire[ce[s]] is the one normal to the
\* side; coeff[s] is dy/2 in magnitude on the sides normal to x and dx/2
\* on the sides normal to y, positive exactly on the sides whose outward
\* normal points in the positive axis direction.
C20_Quadrature ==
    kout.op = "QuadTerm" =>
        LET t == kout.term
            hx == RDiv(kin.dx, I(2))
            hy == RDiv(kin.dy, I(2))
        IN  /\ Side(t) # "off"
            /\ t.xdir <=> Side(t) \in {"east", "west"}
            /\ Side(t) = "east" => REq(t.w, hy)
            /\ Side(t) = "west" => REq(t.w, RNeg(hy))
            /\ Side(t) = "north" => REq(t.w, hx)
            /\ Side(t) = "south" => REq(t.w, RNeg(hx))
            /\ \A sd \in {"east", "west", "north", "south"} :
                   Cardinality({s \in 0 .. 7 :
                       Side(QuadTerm(s, kin.j, kin.k, kin.dx, kin.dy)) = sd}) = 2

\* the term s = 4 of a node on a grid with dx # dy: a point of the
\* element to the lower left, on the west side, with a negative weight
C20_Witness ==
    /\ kout.op = "QuadTerm" /\ kin.s = 4
    /\ ~REq(kin.dx, kin.dy)
    /\ kout.term.elem = <<kin.j - 1, kin.k - 1>>
    /\ Side(kout.term) = "west"
    /\ RLt(kout.term.w, Zero)

(***************************************************************************)
(* ice: the fluxes cancel in the sum of the residual over the grid.        *)
(***************************************************************************)
\* the nodes of the grid, row by row
NodeSeq == [i \in 1 .. MX * MY |-> <<(i - 1) \div MX, (i - 1) % MX>>]

RECURSIVE SumOver(_, _)
\* f[NodeSeq[1]] + ... + f[NodeSeq[i]]
SumOver(i, f) == IF i = 0 THEN Zero ELSE RAdd(SumOver(i - 1, f), f[NodeSeq[i]])

\* the terms s of the node loop that read the point c of an element
ReadersOf(c) == {s \in 0 .. 7 : ce[s + 1] = c}

\* every point c of an element is read by two terms, from two different
\* nodes, with weights of equal magnitude and opposite sign
PairedTerms(dx, dy) ==
    \A c \in 0 .. 3 :
        /\ Cardinality(ReadersOf(c)) = 2
        /\ \A s1 \in ReadersOf(c) : \A s2 \in ReadersOf(c) \ {s1} :
               /\ <<je[s1 + 1], ke[s1 + 1]>> # <<je[s2 + 1], ke[s2 + 1]>>
               /\ REq(coeff(dx, dy)[s1 + 1], RNeg(coeff(dx, dy)[s2 + 1]))

\* the bed values read at the ghost nodes are those of the opposite side
PeriodicBed == \A kj \in GhostNodes : ab[kj] = ab[<<kj[1] % MY, kj[2] % MX>>]

\* the climatic mass balance at the nodes
MassBalance == [kj \in Nodes |-> M_CMBModel(uctx.cmb, RAdd(ab[kj], aHin[kj]))]

\* C21: every flux entry (element, point c) enters the sums of exactly two
\* nodes with weights of equal magnitude and opposite sign, and after an
\* evaluation of ice on the periodic grid the sum of FF over all nodes is
\* minus the sum over all nodes of M*dx*dy, whatever the thickness and
\* the bed of the periodic grid are.
C21_Conservation ==
    (IceEvaluated /\ PeriodicBed) =>
        /\ PairedTerms(RDiv(uctx.L, I(MX)), RDiv(uctx.L, I(MY)))
        /\ REq(SumOver(MX * MY, FF),
               RNeg(RMul3(SumOver(MX * MY, MassBalance),
                          RDiv(uctx.L, I(MX)), RDiv(uctx.L, I(MY)))))

\* an evaluation of an uneven thickness over an uneven bed with a CMB
\* gradient, on two processes, where the fluxes add to the residual of a
\* node
C21_Witness ==
    /\ IceEvaluated /\ PeriodicBed /\ nproc = 2
    /\ uctx.cmb.zgrad # Zero
    /\ \E kj \in Nodes : ab[kj] # ab[<<0, 0>>]
    /\ \E kj \in Nodes : aHin[kj] # aHin[<<0, 0>>]
    /\ \E kj \in Nodes :
           ~REq(FF[kj], RNeg(RMul3(MassBalance[kj], RDiv(uctx.L, I(MX)),
                                   RDiv(uctx.L, I(MY)))))

(***************************************************************************)
(* dnl FormFunctionLocal: the entries of the scratch arrays it writes and  *)
(* reads, on a grid of mx x my nodes for the owned range (xs,xm,ys,ym).    *)
(***************************************************************************)
\* grids have up to MaxGrid nodes in each direction
MaxGrid == 4

\* an array that holds at every entry the index of the entry
IndexArray == [kj \in (-1 .. MaxGrid + 1) \X (-1 .. MaxGrid + 1) |-> kj]

\* the entries <<k, j>> of aH the staging loop writes when no value fails
\* the check: the nodes of the ghosted range that lie in the domain
StagedEntries(info) ==
    {StageOrder(info)[i] : i \in
        {i \in DOMAIN StageOrder(info) :
            ~(\/ StageOrder(info)[i][2] < 0 \/ StageOrder(info)[i][2] > info.mx - 1
              \/ StageOrder(info)[i][1] < 0 \/ StageOrder(info)[i][1] > info.my - 1)}}

\* the entries <<c, <<k, j>>>> of aqquad the element loop writes
FluxEntries(info) == (0 .. 3) \X Elements(info)

\* the entries of aH the element loop reads: the corners fieldatptArray
\* and gradfatptArray take of every element it computes fluxes on
FieldReads(info) ==
    UNION {{Corners(e[2], e[1], IndexArray)[i] : i \in 1 .. 4} : e \in Elements(info)}

\* the nodes the node loop computes a residual at
ResidualNodes(info) ==
    {kj \in (info.ys .. info.ys + info.ym - 1) \X (info.xs .. info.xs + info.xm - 1) :
        ~OnBoundary(info, kj[1], kj[2])}

\* the entries  aqquad[ce[s]][k+ke[s]][j+je[s]]  the node loop reads
FluxReads(info) ==
    {<<QuadTerm(s, kj[2], kj[1], One, One).c,
       <<QuadTerm(s, kj[2], kj[1], One, One).elem[2],
         QuadTerm(s, kj[2], kj[1], One, One).elem[1]>>>> :
        s \in 0 .. 7, kj \in ResidualNodes(info)}

\* the grids and owned ranges followed
ScratchInfos ==
    {info \in [mx : 2 .. MaxGrid, my : 2 .. MaxGrid,
               xs : 0 .. MaxGrid - 1, xm : 1 .. MaxGrid,
               ys : 0 .. MaxGrid - 1, ym : 1 .. MaxGrid] :
        info.xs + info.xm <= info.mx /\ info.ys + info.ym <= info.my}

ScratchInit ==
    /\ kin \in ScratchInfos
    /\ kout = [op |-> "none"]
    /\ CfgIdle /\ ResIdle

\* a call that fails no check: the staging loop, the element loop and the
\* node loop, with the entries each has written and read
CallFormFunctionLocal ==
    /\ kout.op = "none"
    /\ kout' = [op |-> "FormFunctionLocal",
                staged |-> StagedEntries(kin),
                fieldreads |-> FieldReads(kin) \cup ResidualNodes(kin),
                fluxes |-> FluxEntries(kin),
                fluxreads |-> FluxReads(kin)]
    /\ UNCHANGED <<kin, cfgVars, resVars>>

ScratchNext == CallFormFunctionLocal

SpecScratch == ScratchInit /\ [][ScratchNext]_vars

\* C22: in a FormFunctionLocal call, for every grid size and owned range,
\* every entry of aqquad the node loop reads for an owned node off the
\* boundary was written by the element loop of the call, and every entry
\* of the staged field read (the four corners of each element processed,
\* and the node itself in the node loop) was written by the staging loop
\* of the call.
C22_ScratchWritten ==
    kout.op = "FormFunctionLocal" =>
        /\ kout.fluxreads \subseteq kout.fluxes
        /\ kout.fieldreads \subseteq kout.staged

\* a call on a subdomain inside the grid: the node loop reads a flux of
\* an element left of the owned range and the element loop reads the
\* staged field at a ghost node right of it
C22_Witness ==
    /\ kout.op = "FormFunctionLocal"
    /\ kin.xs > 0 /\ kin.xs + kin.xm < kin.mx
    /\ \E e \in kout.fluxreads : e[2][2] = kin.xs - 1
    /\ \E kj \in kout.fieldreads : kj[2] = kin.xs + kin.xm

====
